---------------------------- MODULE Spec2Model ----------------------------
(***************************************************************************)
(* The session core of the voice agent (src/hooks/useLiveAgent.ts): the    *)
(* connection life cycle, the screen-share sampler, the tool dispatcher,   *)
(* the workspace store, the transcript and the persisted snapshots.        *)
(*                                                                         *)
(* The hook is a React component function: every callback sees the state   *)
(* values of the render that created it.  A callback that is called from   *)
(* the UI sees the current values; a callback that resumes after an await, *)
(* or that was registered on the transport, sees the values captured when  *)
(* it was created.  The captured values are kept in the process records.   *)
(* One action is one run of JavaScript from its start to its next await    *)
(* (or its end), followed by the render and the effects it triggers.       *)
(***************************************************************************)
EXTENDS Integers, Sequences, FiniteSets, TLC

\* ------------------------------------------------------------- bounds
MaxConnects == 1
MaxShares == 1
MaxCalls == 2
MaxMsgs == 2
MaxDisconnects == 2
MaxAppends == 3
MaxChunks == 2
MaxTime == 3
MaxDur == 2
MaxStoreCalls == 3

\* ------------------------------------------------- program constants
LogKeep == 99

Null == 0
\* An item id that no item has.
MissingId == Null - 1
Attempts == 1..MaxConnects
\* The connect() calls of a specification that follows a reconnection: one
\* more than Attempts.
Slots == 1..(MaxConnects + 1)
ShareIds == 1..MaxShares
Roles == {"user", "model", "system"}
\* The durations of an audio chunk, in units of bufferTime.
Durations == 1..MaxDur

VARIABLES
    apiKey,             \* process.env.API_KEY is set
    now,                \* Date.now()
    connectionState,    \* useState: ConnectionState
    logs,               \* useState: MessageLog[]
    notifications,      \* useState: Notification[]
    notificationTimers, \* setTimeout of addNotification: ids still to expire
    canvasItems,        \* useState: CanvasItem[]
    activeCanvasId,     \* useState: string | null
    isScreenSharing,    \* useState
    isAgentSpeaking,    \* useState
    videoState,         \* useState: VideoState.isActive
    sessionIdRef,       \* useRef: the id snapshots are saved under
    sessionPromiseRef,  \* useRef: the pending transport handle (an attempt) or Null
    inputContextRef,    \* useRef: input/output AudioContext pair (an attempt) or Null
    processorRef,       \* useRef: inputSource + ScriptProcessor (an attempt) or Null
    volumeIntervalRef,  \* useRef: id of the volume meter timer or Null
    videoStreamRef,     \* useRef: screen MediaStream (a share) or Null
    videoIntervalRef,   \* useRef: id of the screen sampler timer or Null
    isScreenSharingRef, \* useRef
    connectActive,      \* activeCanvasId as seen by the memoized connect callback
    conn,               \* each connect() call: where it stands, what it captured
    session,            \* each attempt's transport session
    thenQueue,          \* reactions registered on each attempt's pending handle
    contexts,           \* AudioContexts that are open
    volumeTimers,       \* volume meter timers that are running
    micTracks,          \* microphone streams whose tracks are live
    captures,           \* ScriptProcessors that are connected and producing frames
    shares,             \* each startScreenShare() call
    videoTracks,        \* screen streams whose tracks are live
    videoTimers,        \* screen sampler timers that are running
    handlers,           \* onmessage runs suspended at an await
    requests,           \* every tool-call request delivered so far
    sent,               \* every tool response delivered to a transport session
    persisted,          \* the persistence adapter's store: id -> snapshot
    lifetimes,          \* session ids generated by connect(), in order
    closedIds,          \* session ids current when a disconnect() completed
    discDone,           \* disconnect() calls completed since the last connect() call
    audioSources,       \* useRef: size of the set of scheduled playback units
    msgs,               \* inbound messages delivered so far
    nextStartTimeRef,   \* useRef: where the next playback unit is to start
    currentTime,        \* each attempt's outputCtx.currentTime
    decoding,           \* onmessage runs suspended at decodeAudioData
    units,              \* every playback unit handed to the audio output
    opened,             \* every window.open of the tool dispatcher
    frames              \* every sendRealtimeInput call made on a session

vars == <<apiKey, now, connectionState, logs, notifications,
          notificationTimers, canvasItems,
          activeCanvasId, isScreenSharing, isAgentSpeaking, videoState,
          sessionIdRef, sessionPromiseRef, inputContextRef, processorRef,
          volumeIntervalRef, videoStreamRef, videoIntervalRef,
          isScreenSharingRef, connectActive, conn, session, thenQueue,
          contexts, volumeTimers, micTracks, captures, shares, videoTracks,
          videoTimers, handlers, requests, sent, persisted, lifetimes,
          closedIds, discDone, audioSources, msgs, nextStartTimeRef,
          currentTime, decoding, units, opened, frames>>

\* The whole state as one record, so that a handler is a function from the
\* state before it to the state after it.  dirty: setLogs or setCanvasItems
\* was called in this run, so the effect of lines 199-210 will run.
\* itemsRef: canvasItemsRef.current, which the effect of line 148 sets to
\* canvasItems after each render and which stays as it is during a run.
World ==
    [apiKey |-> apiKey, now |-> now, connectionState |-> connectionState,
     logs |-> logs, notifications |-> notifications,
     notificationTimers |-> notificationTimers,
     canvasItems |-> canvasItems, activeCanvasId |-> activeCanvasId,
     isScreenSharing |-> isScreenSharing, isAgentSpeaking |-> isAgentSpeaking,
     videoState |-> videoState, sessionIdRef |-> sessionIdRef,
     sessionPromiseRef |-> sessionPromiseRef,
     inputContextRef |-> inputContextRef, processorRef |-> processorRef,
     volumeIntervalRef |-> volumeIntervalRef,
     videoStreamRef |-> videoStreamRef, videoIntervalRef |-> videoIntervalRef,
     isScreenSharingRef |-> isScreenSharingRef,
     connectActive |-> connectActive, conn |-> conn, session |-> session,
     thenQueue |-> thenQueue, contexts |-> contexts,
     volumeTimers |-> volumeTimers, micTracks |-> micTracks,
     captures |-> captures, shares |-> shares, videoTracks |-> videoTracks,
     videoTimers |-> videoTimers, handlers |-> handlers,
     requests |-> requests, sent |-> sent, persisted |-> persisted,
     lifetimes |-> lifetimes, closedIds |-> closedIds, discDone |-> discDone,
     audioSources |-> audioSources, msgs |-> msgs,
     nextStartTimeRef |-> nextStartTimeRef, currentTime |-> currentTime,
     decoding |-> decoding, units |-> units, opened |-> opened,
     frames |-> frames,
     dirty |-> FALSE, itemsRef |-> canvasItems]

SetWorld(w) ==
    /\ apiKey' = w.apiKey
    /\ now' = w.now
    /\ connectionState' = w.connectionState
    /\ logs' = w.logs
    /\ notifications' = w.notifications
    /\ notificationTimers' = w.notificationTimers
    /\ canvasItems' = w.canvasItems
    /\ activeCanvasId' = w.activeCanvasId
    /\ isScreenSharing' = w.isScreenSharing
    /\ isAgentSpeaking' = w.isAgentSpeaking
    /\ videoState' = w.videoState
    /\ sessionIdRef' = w.sessionIdRef
    /\ sessionPromiseRef' = w.sessionPromiseRef
    /\ inputContextRef' = w.inputContextRef
    /\ processorRef' = w.processorRef
    /\ volumeIntervalRef' = w.volumeIntervalRef
    /\ videoStreamRef' = w.videoStreamRef
    /\ videoIntervalRef' = w.videoIntervalRef
    /\ isScreenSharingRef' = w.isScreenSharingRef
    /\ connectActive' = w.connectActive
    /\ conn' = w.conn
    /\ session' = w.session
    /\ thenQueue' = w.thenQueue
    /\ contexts' = w.contexts
    /\ volumeTimers' = w.volumeTimers
    /\ micTracks' = w.micTracks
    /\ captures' = w.captures
    /\ shares' = w.shares
    /\ videoTracks' = w.videoTracks
    /\ videoTimers' = w.videoTimers
    /\ handlers' = w.handlers
    /\ requests' = w.requests
    /\ sent' = w.sent
    /\ persisted' = w.persisted
    /\ lifetimes' = w.lifetimes
    /\ closedIds' = w.closedIds
    /\ discDone' = w.discDone
    /\ audioSources' = w.audioSources
    /\ msgs' = w.msgs
    /\ nextStartTimeRef' = w.nextStartTimeRef
    /\ currentTime' = w.currentTime
    /\ decoding' = w.decoding
    /\ units' = w.units
    /\ opened' = w.opened
    /\ frames' = w.frames

\* ------------------------------------------------------------ helpers
Range(s) == {s[i] : i \in 1..Len(s)}

Put(f, k, v) == [x \in (DOMAIN f) \cup {k} |-> IF x = k THEN v ELSE f[x]]

\* Array.prototype.slice(start) for start < 0: the last -start elements, or
\* the whole array when it is shorter.
SliceFrom(s, start) ==
    LET from == IF Len(s) + start < 0 THEN 0 ELSE Len(s) + start
    IN  SubSeq(s, from + 1, Len(s))

\* ------------------------------------------------- transcript (addLog)
\* addLog without the slice, and with slice(-98).
addLogDropsNone(prev, entry) == Append(prev, entry)

addLogKeepsOneLess(prev, entry) == Append(SliceFrom(prev, -(LogKeep - 1)), entry)

\* setLogs(prev => [...prev.slice(-99), entry])
addLog(prev, entry) == Append(SliceFrom(prev, -LogKeep), entry)

Log(w, role, text) ==
    [w EXCEPT !.logs = addLog(@, [role |-> role, text |-> text]),
              !.dirty = TRUE]

\* addNotification (lines 188-197): the id is Date.now(), and a timer that
\* knows this id is set, 3 seconds ahead.
Notify(w, type, message) ==
    [w EXCEPT !.notifications = Append(@, [id |-> w.now, type |-> type,
                                           message |-> message]),
              !.notificationTimers = Append(@, w.now)]

\* The timer callback of line 192: prev.filter(n => n.id !== id).  The
\* timers all wait 3 seconds, so they fire in the order they were set.
notificationExpired(w) ==
    LET id == Head(w.notificationTimers)
    IN  [w EXCEPT !.notificationTimers = Tail(@),
                  !.notifications = SelectSeq(@, LAMBDA n : n.id # id)]


\* ------------------------------------------------ render and effects
Snapshot(lg, items) == [logs |-> lg, canvasItems |-> items]

\* The render that follows a run.  The effect of lines 199-210 saves a
\* snapshot under the current session id when logs or canvasItems were set
\* and one of them is not empty.  connect is memoized on connectionState,
\* logs and canvasItems (line 737): it is created again, and sees the
\* current activeCanvasId, only when one of them changed.
Commit(w0, w) ==
    [w EXCEPT
        !.persisted =
            IF w.dirty /\ (Len(w.logs) > 0 \/ Len(w.canvasItems) > 0)
            THEN Put(@, w.sessionIdRef, Snapshot(w.logs, w.canvasItems))
            ELSE @,
        !.connectActive =
            IF w.dirty \/ w.connectionState # w0.connectionState
            THEN w.activeCanvasId
            ELSE @]

\* The state after a run is computed once and then assigned.
Step(w) == \E v \in {Commit(World, w)} : SetWorld(v)

\* ------------------------------------------------------- screen share
\* stopScreenShare without the clearInterval of lines 223-226.
stopScreenShareKeepsTimer(w, cs) ==
    LET w1 == [w EXCEPT
                 !.videoTracks = @ \ {w.videoStreamRef},
                 !.videoStreamRef = Null,
                 !.isScreenSharingRef = FALSE,
                 !.isScreenSharing = FALSE]
    IN  IF w.isScreenSharingRef /\ cs = "CONNECTED"
        THEN Notify(Log(w1, "system", "Screen sharing stopped."),
                    "info", "Screen sharing disconnected")
        ELSE w1

\* stopScreenShare, with the connectionState its closure captured.
stopScreenShare(w, cs) ==
    LET wasSharing == w.isScreenSharingRef
        w1 == [w EXCEPT
                 !.videoTracks = @ \ {w.videoStreamRef},
                 !.videoStreamRef = Null,
                 !.videoTimers = @ \ {w.videoIntervalRef},
                 !.videoIntervalRef = Null,
                 !.isScreenSharingRef = FALSE,
                 !.isScreenSharing = FALSE]
    IN  IF wasSharing /\ cs = "CONNECTED"
        THEN Notify(Log(w1, "system", "Screen sharing stopped."),
                    "info", "Screen sharing disconnected")
        ELSE w1

\* --------------------------------------------------------- disconnect
\* disconnect without line 359.
disconnectKeepsHandle(w, cap) ==
    LET w1 == IF cap.on # Null /\ w.session[cap.on] = "open"
              THEN [w EXCEPT !.session[cap.on] = "closing"]
              ELSE w
        w2 == stopScreenShare(w1, cap.cs)
    IN  [w2 EXCEPT
           !.captures = @ \ {w2.processorRef},
           !.contexts = @ \ {w2.inputContextRef},
           !.volumeTimers = @ \ {w2.volumeIntervalRef},
           !.processorRef = Null,
           !.inputContextRef = Null,
           !.connectionState = "DISCONNECTED",
           !.isAgentSpeaking = FALSE,
           !.videoState = FALSE,
           !.persisted = Put(@, w2.sessionIdRef,
                             Snapshot(cap.logs, cap.canvasItems)),
           !.closedIds = @ \cup {w2.sessionIdRef},
           !.discDone = @ + 1]

\* disconnect from line 339 (after the await) to its end.  cap is what the
\* call captured: the handle it awaited (on), and logs, canvasItems and
\* connectionState of the render that created the callback.
disconnectBody(w, cap) ==
    LET \* session.close(), inside try/catch; a rejected handle skips it
        w1 == IF cap.on # Null /\ w.session[cap.on] = "open"
              THEN [w EXCEPT !.session[cap.on] = "closing"]
              ELSE w
        w2 == stopScreenShare(w1, cap.cs)
    IN  [w2 EXCEPT
           !.captures = @ \ {w2.processorRef},
           !.contexts = @ \ {w2.inputContextRef},
           !.volumeTimers = @ \ {w2.volumeIntervalRef},
           !.processorRef = Null,
           !.inputContextRef = Null,
           !.sessionPromiseRef = Null,
           !.connectionState = "DISCONNECTED",
           !.isAgentSpeaking = FALSE,
           !.videoState = FALSE,
           !.persisted = Put(@, w2.sessionIdRef,
                             Snapshot(cap.logs, cap.canvasItems)),
           !.closedIds = @ \cup {w2.sessionIdRef},
           !.discDone = @ + 1]

\* What a disconnect() call captures.
Capture(w, resume) ==
    [type |-> "disconnect", on |-> w.sessionPromiseRef, logs |-> w.logs,
     canvasItems |-> w.canvasItems, cs |-> w.connectionState,
     resume |-> resume]

\* ------------------------------------------------------------ connect
\* connect from line 393 to its await of getUserMedia (line 433).
connectMain(w, k) ==
    LET w1 == [w EXCEPT
                 !.now = @ + 1,
                 !.sessionIdRef = w.now + 1,
                 !.lifetimes = Append(@, w.now + 1),
                 !.logs = <<>>,
                 !.canvasItems = <<>>,
                 !.activeCanvasId = Null,
                 !.dirty = TRUE,
                 !.connectionState = "CONNECTING"]
        w2 == Log(w1, "system", "Initializing")
    IN  [w2 EXCEPT
           !.volumeTimers = @ \cup {k},
           !.volumeIntervalRef = k,
           !.contexts = @ \cup {k},
           !.inputContextRef = k,
           !.conn[k].pc = "awaitMic"]

\* Whether the handle a disconnect() awaits is still pending.
Pending(w, on) == on # Null /\ w.session[on] = "pending"

\* connect() without the check of lines 378-384.
connectCallIgnoresKey(w, k) ==
    connectMain([w EXCEPT !.conn[k] = [pc |-> "done",
                                       cs |-> w.connectionState,
                                       act |-> w.connectActive],
                          !.discDone = 0], k)

\* connect() from its call: lines 377-391, then connectMain unless the
\* disconnect() it awaits is suspended.
connectCall(w, k) ==
    LET cs == w.connectionState
        w0 == [w EXCEPT !.conn[k] = [pc |-> "done", cs |-> cs,
                                     act |-> w.connectActive],
                        !.discDone = 0]
    IN  IF ~w.apiKey
        THEN [Notify(Log(w0, "system", "API Key not found."),
                     "error", "API Key missing")
                EXCEPT !.connectionState = "ERROR"]
        ELSE IF cs = "CONNECTED"
        THEN IF Pending(w0, w0.sessionPromiseRef)
             THEN [w0 EXCEPT
                     !.conn[k].pc = "awaitDisconnect",
                     !.thenQueue[w0.sessionPromiseRef] =
                         Append(@, Capture(w0, k))]
             ELSE [connectMain(disconnectBody(w0, Capture(w0, k)), k)
                     EXCEPT !.discDone = 0]
        ELSE connectMain(w0, k)


\* ---------------------------------------------- the transport handle
\* session.sendToolResponse on attempt k's session: delivered when the
\* session is open; on a closing or closed session the send throws or is
\* dropped, and .catch(() => {}) swallows it.
deliver(w, k, resp) ==
    IF w.session[k] = "open"
    THEN [w EXCEPT !.sent = Append(@, [sess |-> k, id |-> resp.id,
                                       name |-> resp.name,
                                       shape |-> resp.shape])]
    ELSE w

\* The response sent a second time.
sendResponseTwice(w, from, resp) ==
    IF w.sessionPromiseRef = Null THEN w
    ELSE deliver(deliver(w, w.sessionPromiseRef, resp),
                 w.sessionPromiseRef, resp)

\* The response with a missing handle reported on the error path.
sendResponseReportsMiss(w, from, resp) ==
    LET ref == w.sessionPromiseRef
    IN  IF ref = Null
        THEN [w EXCEPT !.logs = addLog(@, [role |-> "system",
                                           text |-> "Error in tool"]),
                       !.dirty = TRUE]
        ELSE IF w.session[ref] = "pending"
        THEN [w EXCEPT !.thenQueue[ref] =
                 Append(@, [type |-> "send", resp |-> resp])]
        ELSE IF w.session[ref] = "failed" THEN w
        ELSE deliver(w, ref, resp)

\* sessionPromiseRef.current?.then(session => session.sendToolResponse(..))
\*     .catch(() => {})          (lines 684-686 and 694-696)
\* from is the session whose message carried the request; the code does
\* not use it.
sendResponse(w, from, resp) ==
    LET ref == w.sessionPromiseRef
    IN  IF ref = Null THEN w
        ELSE IF w.session[ref] = "pending"
        THEN [w EXCEPT !.thenQueue[ref] =
                 Append(@, [type |-> "send", resp |-> resp])]
        ELSE IF w.session[ref] = "failed" THEN w
        ELSE deliver(w, ref, resp)

\* session.sendRealtimeInput on attempt k's session, inside try/catch:
\* the call is made whatever the state of the session (on).
attemptSend(w, k, kind) ==
    [w EXCEPT !.frames = @ \cup {[sess |-> k, on |-> w.session[k],
                                  kind |-> kind]}]

\* sessionPromiseRef.current.then(session => session.sendRealtimeInput(..))
\*     .catch(() => {})          (lines 271-284 and 500-509)
sendRealtimeInput(w, kind) ==
    LET ref == w.sessionPromiseRef
    IN  IF ref = Null THEN w
        ELSE IF w.session[ref] = "pending"
        THEN [w EXCEPT !.thenQueue[ref] =
                 Append(@, [type |-> "frame", kind |-> kind])]
        ELSE IF w.session[ref] = "failed" THEN w
        ELSE attemptSend(w, ref, kind)

\* The reactions registered on attempt k's handle, run in the order they
\* were registered once the handle is settled: a suspended disconnect()
\* goes on (and the connect() that awaited it, if any), a queued tool
\* response or media frame is sent (or skipped, when the handle was
\* rejected).
RECURSIVE runQueue(_, _, _)
runQueue(w, k, q) ==
    IF q = <<>> THEN w
    ELSE LET r == Head(q)
             w1 == IF r.type = "disconnect"
                   THEN LET d == disconnectBody(w, r)
                        IN  IF r.resume # Null
                            THEN [connectMain(d, r.resume)
                                    EXCEPT !.discDone = 0]
                            ELSE d
                   ELSE IF w.session[k] = "failed" THEN w
                   ELSE IF r.type = "frame"
                   THEN attemptSend(w, k, r.kind)
                   ELSE deliver(w, k, r.resp)
         IN  runQueue(w1, k, Tail(q))

settle(w, k) == runQueue([w EXCEPT !.thenQueue[k] = <<>>], k, w.thenQueue[k])

\* onopen (lines 485-515), then the reactions on the resolved handle.
\* nodes: lines 490-514 ran to their end.  When disconnect() has closed the
\* input context meanwhile, createMediaStreamSource (line 490) may throw
\* instead, and the capture nodes are neither kept nor connected.
onopen(w, k, nodes) ==
    LET w1 == Notify(Log([w EXCEPT !.session[k] = "open",
                                   !.connectionState = "CONNECTED"],
                         "system", "Mr. Crack is listening."),
                     "success", "Systems Online")
        w2 == IF nodes
              THEN [w1 EXCEPT !.processorRef = k, !.captures = @ \cup {k}]
              ELSE w1
    IN  settle(w2, k)

\* onerror (lines 704-710), with the connectionState connect captured.
onerror(w, k) ==
    IF w.conn[k].cs = "CONNECTED"
    THEN Notify(w, "error", "Signal Interrupted")
    ELSE w

\* onclose (lines 711-717), with the connectionState connect captured.
onclose(w, k) ==
    IF w.conn[k].cs = "CONNECTED"
    THEN Notify([w EXCEPT !.connectionState = "DISCONNECTED"],
                "info", "Disconnected from server")
    ELSE w


\* ---------------------------------------------------- tool dispatcher
Ids(items) == {items[i].id : i \in 1..Len(items)}

HasId(items, id) == \E i \in 1..Len(items) : items[i].id = id

Resp(c, shape) == [id |-> c.id, name |-> c.name, shape |-> shape]

\* The request's record once its handling ended with outcome st.
Mark(w, c, st) == [w EXCEPT !.requests[c.id].st = st]

\* The new item put last instead of first.
insertItemLast(w, type, title, content) ==
    [w EXCEPT
       !.canvasItems = @ \o <<[id |-> w.now, type |-> type, title |-> title,
                               content |-> content]>>,
       !.activeCanvasId = w.now,
       !.dirty = TRUE]

\* [newItem, ...prev] and setActiveCanvasId(newItem.id), the id being
\* Date.now() (lines 598-606 and 634-642).
insertItem(w, type, title, content) ==
    [w EXCEPT
       !.canvasItems = <<[id |-> w.now, type |-> type, title |-> title,
                          content |-> content]>> \o @,
       !.activeCanvasId = w.now,
       !.dirty = TRUE]

\* prev.map(item => item.id === itemId
\*     ? {...item, title: title || item.title,
\*                 content: content || item.content} : item)
\* An argument that is absent and one that is the empty string are both
\* falsy: "" stands for either.
updateItems(items, itemId, title, content) ==
    [i \in 1..Len(items) |->
        IF items[i].id = itemId
        THEN [items[i] EXCEPT
                !.title = IF title = "" THEN @ ELSE title,
                !.content = IF content = "" THEN @ ELSE content]
        ELSE items[i]]

\* prev.filter(item => item.id !== itemId)
removeItem(items, itemId) ==
    LET keep(item) == item.id # itemId IN SelectSeq(items, keep)

\* What read lists of each item (line 646): id, title and kind.
Summary(items) ==
    [i \in 1..Len(items) |->
        [id |-> items[i].id, title |-> items[i].title, type |-> items[i].type]]

\* items.find(i => i.id === itemId), as a list of none or one.
Found(items, itemId) ==
    LET is(s) == s.id = itemId
        all == SelectSeq(Summary(items), is)
    IN  IF all = <<>> THEN <<>> ELSE <<Head(all)>>

\* The request's record once its handler has looked at the workspace: saw
\* is what it found in canvasItemsRef.current, was is what the store holds
\* at that moment, the updates of this run included.
Saw(w, c, saw, was) ==
    [w EXCEPT !.requests[c.id].saw = saw, !.requests[c.id].was = was]

\* ------------------------------------------- controlBrowser (553-572)
\* Text is a sequence of characters.  A URL is a fixed text (base) followed
\* by the characters of an encoded argument (tail).
Undefined == "undefined"

Text(w1, w2) == IF w2 = <<>> THEN w1 ELSE w1 \o <<" ">> \o w2

\* SUPPORTED_APPS (types, lines 49-64).
SUPPORTED_APPS ==
    (<<"c","a","n","v","a">> :>
        [url |-> "https://www.canva.com",
         searchTemplate |-> "https://www.canva.com/search?q="])
    @@ (<<"g","o","o","g","l","e">> :>
        [url |-> "https://www.google.com",
         searchTemplate |-> "https://www.google.com/search?q="])
    @@ (<<"y","o","u","t","u","b","e">> :>
        [url |-> "https://www.youtube.com",
         searchTemplate |-> "https://www.youtube.com/results?search_query="])
    @@ (<<"t","w","i","t","t","e","r">> :>
        [url |-> "https://www.twitter.com",
         searchTemplate |-> "https://twitter.com/search?q="])
    @@ (<<"x">> :>
        [url |-> "https://www.x.com",
         searchTemplate |-> "https://x.com/search?q="])
    @@ (<<"g","i","t","h","u","b">> :>
        [url |-> "https://www.github.com",
         searchTemplate |-> "https://github.com/search?q="])
    @@ (<<"g","m","a","i","l">> :>
        [url |-> "https://mail.google.com",
         searchTemplate |-> "https://mail.google.com/mail/u/0/#search/"])
    @@ (<<"c","a","l","e","n","d","a","r">> :>
        [url |-> "https://calendar.google.com",
         searchTemplate |-> "https://calendar.google.com/calendar/r/search?q="])
    @@ (<<"s","p","o","t","i","f","y">> :>
        [url |-> "https://open.spotify.com",
         searchTemplate |-> "https://open.spotify.com/search/"])
    @@ (<<"c","h","a","t","g","p","t">> :>
        [url |-> "https://chat.openai.com", searchTemplate |-> Undefined])
    @@ (<<"c","l","a","u","d","e">> :>
        [url |-> "https://claude.ai", searchTemplate |-> Undefined])
    @@ (<<"n","e","t","f","l","i","x">> :>
        [url |-> "https://www.netflix.com",
         searchTemplate |-> "https://www.netflix.com/search?q="])
    @@ (<<"a","m","a","z","o","n">> :>
        [url |-> "https://www.amazon.com",
         searchTemplate |-> "https://www.amazon.com/s?k="])
    @@ (<<"r","e","d","d","i","t">> :>
        [url |-> "https://www.reddit.com",
         searchTemplate |-> "https://www.reddit.com/search/?q="])

\* The lower-case property names every object inherits from
\* Object.prototype: SUPPORTED_APPS[name] is an object for them too.
Inherited == {<<"c","o","n","s","t","r","u","c","t","o","r">>}

\* String.prototype.toLowerCase, over the capitals that occur here.
toLowerCase(t) ==
    [i \in 1..Len(t) |->
        CASE t[i] = "C" -> "c"
          [] t[i] = "N" -> "n"
          [] OTHER -> t[i]]

\* encodeURIComponent, over letters (kept) and the space (escaped).
encodeURIComponent(t) ==
    [i \in 1..Len(t) |-> IF t[i] = " " THEN "%20" ELSE t[i]]

\* SUPPORTED_APPS[appName]: the entry, an inherited property (an object
\* that has neither url nor searchTemplate), or undefined.
appConfigOf(appName) ==
    IF appName \in DOMAIN SUPPORTED_APPS
    THEN [found |-> TRUE, url |-> SUPPORTED_APPS[appName].url,
          searchTemplate |-> SUPPORTED_APPS[appName].searchTemplate]
    ELSE IF appName \in Inherited
    THEN [found |-> TRUE, url |-> Undefined, searchTemplate |-> Undefined]
    ELSE [found |-> FALSE, url |-> Undefined, searchTemplate |-> Undefined]

\* The URL controlBrowser opens for request c (lines 554-569).  An absent
\* searchQuery and an empty one are both falsy.
browserUrl(c) ==
    LET appName == toLowerCase(c.appName)
        appConfig == appConfigOf(appName)
    IN  IF appConfig.found
        THEN IF c.searchQuery # <<>> /\ appConfig.searchTemplate # Undefined
             THEN [base |-> appConfig.searchTemplate,
                   tail |-> encodeURIComponent(c.searchQuery)]
             ELSE [base |-> appConfig.url, tail |-> <<>>]
        ELSE [base |-> "https://www.google.com/search?q=",
              tail |-> encodeURIComponent(Text(appName, c.searchQuery))]

\* window.open(url, '_blank'), addLog('system', result).
controlBrowser(w, c) ==
    Log([w EXCEPT !.opened = Append(@, [id |-> c.id, appName |-> c.appName,
                                        searchQuery |-> c.searchQuery,
                                        url |-> browserUrl(c)])],
        "system",
        IF appConfigOf(toLowerCase(c.appName)).found
        THEN "Opened" ELSE "Searched for")

\* manageWorkspace delete with an itemId (lines 660-664).  activeCanvasId
\* is the value the connect callback captured (h.act), not the current one.
deleteItem(w, h, c) ==
    LET w1 == [w EXCEPT !.canvasItems = removeItem(@, c.itemId),
                        !.dirty = TRUE]
        w2 == IF h.act = c.itemId
              THEN [w1 EXCEPT !.activeCanvasId = Null]
              ELSE w1
    IN  Notify(w2, "success", "Item Deleted")

\* manageWorkspace (lines 624-669): the state after it and the shape of
\* its result.
manageWorkspace(w, h, c) ==
    LET out ==
          CASE c.action = "create" ->
                 [w |-> Notify(insertItem(w,
                                   IF c.itemType = "" THEN "note"
                                   ELSE c.itemType,
                                   "Untitled", ""),
                               "success", "Created"),
                  shape |-> "ok"]
            [] c.action = "read" ->
                 [w |-> Saw(w, c, Summary(w.itemsRef), Summary(w.canvasItems)),
                  shape |-> "ok"]
            [] c.action = "update" ->
                 IF c.itemId # Null
                 THEN [w |-> Notify([w EXCEPT
                                 !.canvasItems =
                                     updateItems(@, c.itemId, c.title, "C2"),
                                 !.dirty = TRUE],
                              "success", "Item Updated"),
                       shape |-> "ok"]
                 ELSE [w |-> w, shape |-> "fail"]
            [] c.action = "delete" ->
                 IF c.itemId # Null
                 THEN [w |-> deleteItem(w, h, c), shape |-> "ok"]
                 ELSE [w |-> w, shape |-> "fail"]
    IN  [w |-> Log(out.w, "system", "result"), shape |-> out.shape]

\* One request handled without suspending (lines 549-697, generateImage
\* apart): the handler, then the response; a handler that throws (here:
\* the request carries no args, so reading an argument raises) is caught
\* at line 688.
catchToolError(w, h, c) ==
    sendResponse(Notify(Log(Mark(w, c, "threw"), "system", "Error in tool"),
                        "error", "Task failed"),
                 h.sess, Resp(c, "error"))

answer(w, h, c, shape) == sendResponse(Mark(w, c, shape), h.sess, Resp(c, shape))

toolCall(w, h, c) ==
    IF c.name = "other" THEN answer(w, h, c, "empty")
    ELSE IF ~c.args THEN catchToolError(w, h, c)
    ELSE CASE c.name = "controlBrowser" ->
                answer(controlBrowser(w, c), h, c, "ok")
           [] c.name = "playVideo" ->
                answer(Notify([w EXCEPT !.videoState = TRUE],
                              "success", "Playing"), h, c, "ok")
           [] c.name = "manageWorkspace" ->
                LET r == manageWorkspace(w, h, c)
                IN  answer(r.w, h, c, r.shape)
           [] c.name = "downloadItem" ->
                LET w1 == Saw(w, c, Found(w.itemsRef, c.itemId),
                              Found(w.canvasItems, c.itemId))
                IN  IF HasId(w.itemsRef, c.itemId)
                    THEN answer(Notify(w1, "success", "Downloaded"),
                                h, c, "ok")
                    ELSE answer(w1, h, c, "fail")

\* The for loop of line 547 from the request at the head of calls, until
\* it ends or suspends at generateImage's backend call (line 581).
RECURSIVE runCalls(_, _, _)
runCalls(w, h, calls) ==
    IF calls = <<>> THEN w
    ELSE LET c == Head(calls)
         IN  IF c.name = "generateImage" /\ c.args
             THEN [Notify(Log(Mark(w, c, "running"), "system",
                              "Generating Image"),
                          "info", "Generating Visuals...")
                     EXCEPT !.handlers =
                        Append(@, [sess |-> h.sess, act |-> h.act,
                                   call |-> c, rest |-> Tail(calls)])]
             ELSE runCalls(toolCall(w, h, c), h, Tail(calls))

\* generateImage after its backend call (lines 586-611).
imageReturned(w, h, c, outcome) ==
    IF outcome = "image"
    THEN answer(Notify(insertItem(w, "image", "prompt", "data"),
                       "success", "Image Generated"), h, c, "ok")
    ELSE catchToolError(w, h, c)

\* The requests of a message, registered as delivered on session k while
\* the session id was sid.
RECURSIVE register(_, _, _, _)
register(reqs, k, sid, calls) ==
    IF calls = <<>> THEN reqs
    ELSE register(Put(reqs, Head(calls).id,
                      [sess |-> k, sid |-> sid, name |-> Head(calls).name,
                       action |-> Head(calls).action,
                       itemId |-> Head(calls).itemId,
                       itemType |-> Head(calls).itemType,
                       title |-> IF "title" \in DOMAIN Head(calls)
                                 THEN Head(calls).title ELSE "",
                       st |-> "waiting", saw |-> <<>>, was |-> <<>>]),
                  k, sid, Tail(calls))

CallIds(calls) == {calls[i].id : i \in 1..Len(calls)}

\* ------------------------------------------------- playback scheduler
\* Playback time is counted in units of bufferTime (line 524: 0.05 s).
bufferTime == 1

\* Lines 520-527: a chunk arrives on session k; the run then suspends at
\* decodeAudioData (line 529).
audioArrived(w, k) ==
    [w EXCEPT !.isAgentSpeaking = TRUE,
              !.nextStartTimeRef =
                  IF @ < w.currentTime[k]
                  THEN w.currentTime[k] + bufferTime
                  ELSE @]

\* AudioBufferSourceNode.start(when) (line 540): playback begins at when,
\* and at once if when is already past.
playFrom(when, clock) == IF when < clock THEN clock ELSE when

\* The unit scheduled and nextStart left where it was.
audioScheduledNoAdvance(w, c, dur) ==
    [w EXCEPT
       !.units = Append(@, [sess |-> c.sess, n |-> c.n, arr |-> c.arr,
                            at |-> w.currentTime[c.sess],
                            when |-> w.nextStartTimeRef,
                            from |-> w.nextStartTimeRef,
                            dur |-> dur, reset |-> c.reset, idle |-> c.idle,
                            played |-> c.sess \in w.contexts,
                            ended |-> FALSE]),
       !.audioSources = @ + 1]

\* Lines 531-542: decodeAudioData has resolved with a buffer that lasts
\* dur; c is the chunk (its session, its arrival number n and the clock
\* arr at its arrival).  A unit is kept with the start it was given
\* (when), the clock at that moment (at) and the time it plays from; on a
\* context that disconnect() has closed it does not play.  ended: its
\* 'ended' listener has run.
audioScheduled(w, c, dur) ==
    [w EXCEPT
       !.units = Append(@, [sess |-> c.sess, n |-> c.n, arr |-> c.arr,
                            at |-> w.currentTime[c.sess],
                            when |-> w.nextStartTimeRef,
                            from |-> playFrom(w.nextStartTimeRef,
                                              w.currentTime[c.sess]),
                            dur |-> dur, reset |-> c.reset, idle |-> c.idle,
                            played |-> c.sess \in w.contexts,
                            ended |-> FALSE]),
       !.nextStartTimeRef = @ + dur,
       !.audioSources = @ + 1]

\* Whether a unit is scheduled or playing: it was handed to an output
\* context that is open and whose clock has not reached the unit's end.
Sounding(w, u) ==
    u.played /\ u.sess \in w.contexts /\ u.from + u.dur > w.currentTime[u.sess]

\* The chunk of the message that is being delivered on session k; reset:
\* it arrives while nextStart is behind the clock (line 525); idle: it
\* arrives while no chunk is being decoded and no unit is scheduled or
\* playing.
Chunk(w, k, dur) ==
    [sess |-> k, n |-> w.msgs + 1, arr |-> w.currentTime[k], dur |-> dur,
     reset |-> w.nextStartTimeRef < w.currentTime[k],
     idle |-> /\ w.decoding = <<>>
              /\ \A i \in 1..Len(w.units) : ~Sounding(w, w.units[i])]

\* onmessage for a message that carries a chunk and no tool call, up to
\* line 529.
chunkArrived(w, k, dur) ==
    [audioArrived(w, k) EXCEPT !.msgs = @ + 1,
                               !.decoding = Append(@, Chunk(w, k, dur))]

\* The i-th suspended run goes on from line 529 to its end.
chunkDecoded(w, i) ==
    audioScheduled([w EXCEPT !.decoding = SubSeq(@, 1, i - 1)
                                          \o SubSeq(@, i + 1, Len(@))],
                   w.decoding[i], w.decoding[i].dur)

\* decodeAudioData rejects for the i-th suspended run: the catch of line
\* 700 ends the run.
chunkFailed(w, i) ==
    [w EXCEPT !.decoding = SubSeq(@, 1, i - 1) \o SubSeq(@, i + 1, Len(@))]

\* The 'ended' listener of unit i (lines 535-538).
sourceEnded(w, i) ==
    [w EXCEPT !.units[i].ended = TRUE,
              !.audioSources = @ - 1,
              !.isAgentSpeaking = IF w.audioSources = 1 THEN FALSE ELSE @]

\* onmessage (lines 516-703).  The audio part comes first, inside the same
\* try block: when it throws (the chunk does not decode), line 700 catches
\* and the tool calls of the message are never reached.  A chunk that
\* decodes lasts one unit here and is decoded before the clock moves or
\* anything else runs.
onmessage(w, k, audio, calls) ==
    LET h == [sess |-> k, act |-> w.conn[k].act]
        w0 == [w EXCEPT !.requests = register(@, k, w.sessionIdRef, calls),
                        !.msgs = @ + 1]
        w1 == IF audio = "none" THEN w0
              ELSE audioArrived(w0, k)
    IN  IF audio = "bad"
        THEN [w1 EXCEPT !.requests =
                 [id \in DOMAIN @ |->
                     IF @[id].st = "waiting" /\ id \in CallIds(calls)
                     THEN [@[id] EXCEPT !.st = "dropped"]
                     ELSE @[id]]]
        ELSE LET w2 == IF audio = "ok"
                       THEN audioScheduled(w1, Chunk(w, k, 1), 1)
                       ELSE w1
                 w3 == IF calls = <<>> THEN w2
                       ELSE Log(w2, "model", "Executing tool...")
             IN  runCalls(w3, h, calls)


\* -------------------------------------------------- startScreenShare
\* startScreenShare after getDisplayMedia resolved (lines 243-286).
shareStarted(w, s) ==
    LET w1 == [w EXCEPT !.videoStreamRef = s,
                        !.videoTracks = @ \cup {s},
                        !.isScreenSharingRef = TRUE,
                        !.isScreenSharing = TRUE,
                        !.shares[s].pc = "done"]
        w2 == Notify(Log(w1, "system", "Mr. Crack is watching your screen..."),
                     "success", "Visual link established")
    IN  [w2 EXCEPT !.videoIntervalRef = s, !.videoTimers = @ \cup {s}]

\* startScreenShare's catch (lines 288-297).
shareFailed(w, s, name) ==
    LET w1 == IF name = "NotAllowedError"
              THEN Log(w, "system", "Screen share cancelled.")
              ELSE Notify(Log(w, "system", "Screen share failed"),
                          "error", "Screen share failed to start")
    IN  [w1 EXCEPT !.isScreenSharing = FALSE,
                   !.isScreenSharingRef = FALSE,
                   !.shares[s].pc = "done"]

\* ----------------------------------------------------------- the UI
\* deleteCanvasItem (lines 739-742); created at every render, it sees the
\* current activeCanvasId.
deleteCanvasItem(w, id) ==
    LET w1 == [w EXCEPT !.canvasItems = removeItem(@, id), !.dirty = TRUE]
    IN  IF w.activeCanvasId = id
        THEN [w1 EXCEPT !.activeCanvasId = Null]
        ELSE w1

\* ===================================================== specification
\* Everything but the transcript, the key and what follows from them.
InitRest ==
    /\ now = 0
    /\ notifications = <<>>
    /\ notificationTimers = <<>>
    /\ canvasItems = <<>>
    /\ activeCanvasId = Null
    /\ isScreenSharing = FALSE
    /\ isAgentSpeaking = FALSE
    /\ videoState = FALSE
    /\ sessionIdRef = 0
    /\ sessionPromiseRef = Null
    /\ inputContextRef = Null
    /\ processorRef = Null
    /\ volumeIntervalRef = Null
    /\ videoStreamRef = Null
    /\ videoIntervalRef = Null
    /\ isScreenSharingRef = FALSE
    /\ connectActive = Null
    /\ conn = [k \in Slots |->
                 [pc |-> "idle", cs |-> "DISCONNECTED", act |-> Null]]
    /\ session = [k \in Slots |-> "none"]
    /\ thenQueue = [k \in Slots |-> <<>>]
    /\ contexts = {}
    /\ volumeTimers = {}
    /\ micTracks = {}
    /\ captures = {}
    /\ shares = [s \in ShareIds |-> [pc |-> "idle", cs |-> "DISCONNECTED"]]
    /\ videoTracks = {}
    /\ videoTimers = {}
    /\ handlers = <<>>
    /\ requests = <<>>
    /\ sent = <<>>
    /\ lifetimes = <<>>
    /\ closedIds = {}
    /\ discDone = 0
    /\ audioSources = 0
    /\ msgs = 0
    /\ nextStartTimeRef = 0
    /\ currentTime = [k \in Slots |-> 0]
    /\ decoding = <<>>
    /\ units = <<>>
    /\ opened = <<>>
    /\ frames = {}

\* The hook after it is mounted.
Init ==
    /\ InitRest
    /\ apiKey \in BOOLEAN
    /\ connectionState = "DISCONNECTED"
    /\ logs = <<>>
    /\ persisted = <<>>

\* A transcript of n entries, written one per second up to now: what n
\* connect() calls without a key leave (lines 379-383), the notifications
\* expired.  text is the entry's serial number in the transcript.
Written(n) == [i \in 1..n |-> [role |-> "system", text |-> i]]

InitLog ==
    /\ InitRest
    /\ apiKey = FALSE
    /\ \E n \in 0..(LogKeep + 1) : logs = Written(n)
    /\ connectionState = IF logs = <<>> THEN "DISCONNECTED" ELSE "ERROR"
    /\ persisted = IF logs = <<>> THEN <<>>
                   ELSE Put(<<>>, sessionIdRef, Snapshot(logs, <<>>))

\* The next connect() call is attempt k.
NextAttempt(k) ==
    /\ conn[k].pc = "idle"
    /\ \A j \in Slots : j < k => conn[j].pc # "idle"

\* connect(), called through the hook in any state.
ConnectCall(k) ==
    /\ NextAttempt(k)
    /\ Step(connectCall(World, k))

\* getUserMedia resolves (line 433); connect goes on to line 729.
MicGranted(k) ==
    /\ conn[k].pc = "awaitMic"
    /\ Step([World EXCEPT !.micTracks = @ \cup {k},
                          !.session[k] = "pending",
                          !.sessionPromiseRef = k,
                          !.conn[k].pc = "done"])

\* getUserMedia rejects; connect's catch (lines 731-736).
MicDenied(k) ==
    /\ conn[k].pc = "awaitMic"
    /\ Step(Notify(Log([World EXCEPT !.connectionState = "ERROR",
                                     !.conn[k].pc = "done"],
                       "system", "Connection failed"),
                   "error", "Failed to connect"))

\* The transport confirms the session open.
TransportOpen(k) ==
    /\ session[k] = "pending"
    /\ \E nodes \in {TRUE} \cup {b \in {FALSE} : k \notin contexts} :
          Step(onopen(World, k, nodes))

\* The transport fails to open: the handle is rejected and the error and
\* close callbacks run.
TransportFail(k) ==
    /\ session[k] = "pending"
    /\ Step(settle(onclose(onerror([World EXCEPT !.session[k] = "failed"],
                                   k), k), k))

\* The transport reports an error on an open session; the close event
\* follows.
TransportError(k) ==
    /\ session[k] = "open"
    /\ Step(onerror([World EXCEPT !.session[k] = "closing"], k))

\* The transport reports the session closed: by the remote peer (it was
\* open) or after session.close() (it was closing).
TransportClose(k) ==
    /\ session[k] \in {"open", "closing"}
    /\ Step(onclose([World EXCEPT !.session[k] = "closed"], k))

\* Suspended disconnect() calls that no connect() awaits.
Waiting ==
    LET n[k \in 0..(MaxConnects + 1)] ==
          IF k = 0 THEN 0
          ELSE n[k - 1] + Len(SelectSeq(thenQueue[k],
                    LAMBDA r : r.type = "disconnect" /\ r.resume = Null))
    IN  n[MaxConnects + 1]

\* disconnect(), called through the hook in any state: it runs to its end,
\* or suspends at line 340 while the handle is pending.
DisconnectCall ==
    /\ discDone + Waiting < MaxDisconnects
    /\ IF Pending(World, sessionPromiseRef)
       THEN Step([World EXCEPT !.thenQueue[sessionPromiseRef] =
                                  Append(@, Capture(World, Null))])
       ELSE Step(disconnectBody(World, Capture(World, Null)))

\* handleToggleConnection (App, lines 52-58): the main button disconnects
\* while CONNECTED or CONNECTING and connects otherwise.
HandleToggleConnection(k) ==
    IF connectionState \in {"CONNECTED", "CONNECTING"}
    THEN /\ k = 1
         /\ DisconnectCall
    ELSE ConnectCall(k)

\* startScreenShare(): the button is enabled only while CONNECTED
\* (App, line 306); it suspends at getDisplayMedia.
ShareCall(s) ==
    /\ shares[s].pc = "idle"
    /\ \A j \in ShareIds : j < s => shares[j].pc # "idle"
    /\ connectionState = "CONNECTED"
    /\ Step([World EXCEPT !.shares[s] = [pc |-> "awaitDisplay",
                                         cs |-> connectionState]])

ShareGranted(s) ==
    /\ shares[s].pc = "awaitDisplay"
    /\ Step(shareStarted(World, s))

ShareDenied(s) ==
    /\ shares[s].pc = "awaitDisplay"
    /\ \E name \in {"NotAllowedError", "NotFoundError"} :
          Step(shareFailed(World, s, name))

\* The screen track ends (the user revokes the capture): onended, line 250,
\* calls the stopScreenShare startScreenShare captured.
TrackEnded(s) ==
    /\ s \in videoTracks
    /\ Step(stopScreenShare([World EXCEPT !.videoTracks = @ \ {s}],
                            shares[s].cs))

\* stopScreenShare() from the share button.
StopShare ==
    /\ isScreenSharing
    /\ connectionState = "CONNECTED"
    /\ Step(stopScreenShare(World, connectionState))


\* onaudioprocess (lines 496-511): the ScriptProcessor of attempt k, still
\* connected, hands over a buffer of microphone samples.
AudioProcess(k) ==
    /\ k \in captures
    /\ Step(sendRealtimeInput(World, "audio"))

\* The sampler's timer fires (lines 263-286) while sharing is on.
SampleScreen(s) ==
    /\ s \in videoTimers
    /\ isScreenSharingRef
    /\ Step(sendRealtimeInput(World, "image"))

\* The item ids a request of the remote peer may name on session k: none,
\* one that no item has, one of an item in the store.
ItemIdArgs == {Null, MissingId} \cup Ids(canvasItems)

Call(name, args, action, itemId, itemType) ==
    [id |-> 0, name |-> name, args |-> args, action |-> action,
     itemId |-> itemId, itemType |-> itemType]

\* A controlBrowser request: appName, and searchQuery (empty when the
\* request carries none).
BrowserCall(appName, searchQuery) ==
    Call("controlBrowser", TRUE, "", Null, "")
        @@ [appName |-> appName, searchQuery |-> searchQuery]

\* A manageWorkspace update: itemId, and the title ("" when the request
\* carries none); the content is always given.
UpdateCall(itemId, title) ==
    Call("manageWorkspace", TRUE, "update", itemId, "") @@ [title |-> title]

\* The requests the remote peer may send.
CallShapes ==
    {Call(n, TRUE, "", Null, "") :
        n \in {"generateImage", "playVideo", "other"}}
    \cup {BrowserCall(<<"c","a","n","v","a">>, <<>>)}
    \cup {Call("manageWorkspace", FALSE, "", Null, "")}
    \cup {Call("manageWorkspace", TRUE, "create", Null, t) :
            t \in {"", "spreadsheet"}}
    \cup {Call("manageWorkspace", TRUE, "read", Null, "")}
    \cup {UpdateCall(i, t) : i \in ItemIdArgs, t \in {"", "T2"}}
    \cup {Call("manageWorkspace", TRUE, "delete", i, "") : i \in ItemIdArgs}
    \cup {Call("downloadItem", TRUE, "", i, "") : i \in ItemIdArgs \ {Null}}

\* The requests whose handler throws or may throw, and one that is
\* answered as it is.
FaultShapes ==
    {Call("manageWorkspace", FALSE, "", Null, ""),
     Call("generateImage", TRUE, "", Null, ""),
     Call("other", TRUE, "", Null, "")}

\* The app names and search queries of a controlBrowser request: names of
\* the directory (one with a search template, one without, one with a
\* capital), names that are not in it, and no query, a word, two words.
AppNames ==
    {<<"c","a","n","v","a">>, <<"C","a","n","v","a">>,
     <<"c","l","a","u","d","e">>,
     <<"u","n","k","n","o","w","n","a","p","p">>,
     <<"c","o","n","s","t","r","u","c","t","o","r">>}

SearchQueries ==
    {<<>>, <<"x">>, <<"l","o","g","o"," ","d","e","s","i","g","n">>}

BrowserShapes ==
    {BrowserCall(a, q) : a \in AppNames, q \in SearchQueries}

\* Call ids are given by the remote peer: distinct, in order of delivery.
NextCallId == Cardinality(DOMAIN requests) + 1

\* The function calls of one message: none, one or two of the shapes, as
\* long as no more than max requests are delivered in all.
CallSeqsUpTo(shapes, max) ==
    {<<>>}
    \cup (IF NextCallId <= max
          THEN {<<[c EXCEPT !.id = NextCallId]>> : c \in shapes}
          ELSE {})
    \cup (IF NextCallId + 1 <= max
          THEN {<<[c EXCEPT !.id = NextCallId],
                  [d EXCEPT !.id = NextCallId + 1]>> :
                    c \in shapes, d \in shapes}
          ELSE {})

CallSeqs(shapes) == CallSeqsUpTo(shapes, MaxCalls)

\* Whether handling the requests reads Date.now() for an item id.
Creates(calls) ==
    \E i \in 1..Len(calls) :
        calls[i].name = "manageWorkspace" /\ calls[i].action = "create"

\* An inbound message on an open session: an audio chunk (none, one that
\* decodes, one that does not) and tool-call requests.  tick: the clock
\* has advanced since it was last read.
DeliverOf(k, audios, seqs) ==
    /\ session[k] = "open"
    /\ msgs < MaxMsgs
    /\ \E audio \in audios, calls \in seqs, tick \in BOOLEAN :
          /\ audio # "none" \/ calls # <<>>
          /\ tick => Creates(calls)
          /\ Step(onmessage([World EXCEPT !.now = IF tick THEN @ + 1 ELSE @],
                            k, audio, calls))

Deliver(k, audios, shapes) == DeliverOf(k, audios, CallSeqs(shapes))

Message(k) == Deliver(k, {"none", "ok", "bad"}, CallShapes)

\* A message that carries only requests of the shapes above.
FaultyMessage(k) == Deliver(k, {"none"}, FaultShapes)

\* The requests that create and update items.
StoreShapes ==
    {Call("manageWorkspace", TRUE, "create", Null, "")}
    \cup {UpdateCall(i, t) : i \in Ids(canvasItems), t \in {"", "T2"}}

\* A message that carries only requests of these shapes.
StoreMessage(k) ==
    DeliverOf(k, {"none"}, CallSeqsUpTo(StoreShapes, MaxStoreCalls))

\* A message that carries only controlBrowser requests.
BrowserMessage(k) == Deliver(k, {"none"}, BrowserShapes)

\* A message that carries generateImage requests only.
ImageShapes == {Call("generateImage", TRUE, "", Null, "")}

ImageMessage(k) == Deliver(k, {"none"}, ImageShapes)

\* The image backend answers the i-th suspended run: with image data, with
\* none, or by rejecting; the run goes on with the rest of its requests.
ImageReturn(i) ==
    /\ i \in 1..Len(handlers)
    /\ \E outcome \in {"image", "nodata", "reject"}, tick \in BOOLEAN :
          /\ tick => (outcome = "image" \/ Creates(handlers[i].rest))
          /\ LET h == handlers[i]
                 w == [World EXCEPT
                         !.now = IF tick THEN @ + 1 ELSE @,
                         !.handlers = SubSeq(@, 1, i - 1)
                                      \o SubSeq(@, i + 1, Len(@))]
             IN  Step(runCalls(imageReturned(w, h, h.call, outcome),
                               h, h.rest))

\* An inbound message that carries an audio chunk only (lines 516-529).
\* The output context was created at line 406 and has been running while
\* the microphone and the transport were awaited: its clock is past 0.
ChunkArrives(k) ==
    /\ session[k] = "open"
    /\ msgs < MaxChunks
    /\ currentTime[k] > 0
    /\ \E dur \in Durations : Step(chunkArrived(World, k, dur))

\* decodeAudioData resolves for one of the suspended runs.
ChunkDecoded(i) ==
    /\ i \in 1..Len(decoding)
    /\ Step(chunkDecoded(World, i))

\* The clock of an open output context advances by one unit.
Tick(k) ==
    /\ k \in contexts
    /\ currentTime[k] < MaxTime
    /\ Step([World EXCEPT !.currentTime[k] = @ + 1])

\* decodeAudioData rejects for one of the suspended runs.
ChunkFails(i) ==
    /\ i \in 1..Len(decoding)
    /\ Step(chunkFailed(World, i))

\* Playback unit i has played to its end on an output context that is
\* still open, and its 'ended' event is delivered.
SourceEnded(i) ==
    /\ i \in 1..Len(units)
    /\ ~units[i].ended
    /\ units[i].played
    /\ units[i].sess \in contexts
    /\ units[i].from + units[i].dur <= currentTime[units[i].sess]
    /\ Step(sourceEnded(World, i))

\* The workspace panel: delete an item, select an item, go back.
DeleteCanvasItem ==
    \E id \in Ids(canvasItems) : Step(deleteCanvasItem(World, id))

SetActiveCanvasId ==
    \E id \in Ids(canvasItems) \cup {Null} :
        /\ id # activeCanvasId
        /\ Step([World EXCEPT !.activeCanvasId = id])

\* One more transcript entry, of any role, a second later.
Serial == IF logs = <<>> THEN 1 ELSE logs[Len(logs)].text + 1

AddLog ==
    /\ now < MaxAppends
    /\ \E role \in Roles :
          Step(Log([World EXCEPT !.now = @ + 1], role, Serial))

\* The connection life cycle and the screen share.
NextConn ==
    \/ \E k \in Attempts :
          \/ ConnectCall(k)
          \/ MicGranted(k)
          \/ MicDenied(k)
          \/ TransportOpen(k)
          \/ TransportFail(k)
          \/ TransportError(k)
          \/ TransportClose(k)
    \/ DisconnectCall
    \/ \E s \in ShareIds :
          \/ ShareCall(s)
          \/ ShareGranted(s)
          \/ ShareDenied(s)
          \/ TrackEnded(s)
    \/ StopShare

\* The connection life cycle and the frames the capture pipeline and the
\* screen sampler send.
NextFrames ==
    \/ NextConn
    \/ \E k \in Attempts : AudioProcess(k)
    \/ \E s \in ShareIds : SampleScreen(s)

\* The inbound messages, the tool dispatcher and the workspace.
NextTools ==
    \/ \E k \in Attempts :
          \/ HandleToggleConnection(k)
          \/ MicGranted(k)
          \/ TransportOpen(k)
          \/ TransportClose(k)
          \/ Message(k)
    \/ \E i \in 1..MaxCalls : ImageReturn(i)
    \/ DeleteCanvasItem
    \/ SetActiveCanvasId

\* The tool dispatcher's error path.
NextCatch ==
    \/ \E k \in Attempts :
          \/ HandleToggleConnection(k)
          \/ MicGranted(k)
          \/ TransportOpen(k)
          \/ TransportClose(k)
          \/ FaultyMessage(k)
    \/ \E i \in 1..MaxCalls : ImageReturn(i)

\* The playback scheduler, over a connection and a reconnection.
NextAudio ==
    \/ \E k \in Slots :
          \/ HandleToggleConnection(k)
          \/ MicGranted(k)
          \/ TransportOpen(k)
          \/ ChunkArrives(k)
          \/ Tick(k)
    \/ \E i \in 1..MaxChunks :
          \/ ChunkDecoded(i)
          \/ ChunkFails(i)
          \/ SourceEnded(i)

\* The main button pressed again and again: a connection, and a second
\* one while the first is still under way.
NextOverlap ==
    \E k \in Slots :
        \/ HandleToggleConnection(k)
        \/ MicGranted(k)
        \/ TransportOpen(k)
        \/ TransportClose(k)

\* The browser tool.
NextBrowser ==
    \E k \in Attempts :
        \/ HandleToggleConnection(k)
        \/ MicGranted(k)
        \/ TransportOpen(k)
        \/ TransportClose(k)
        \/ BrowserMessage(k)

\* Image requests over a connection and a reconnection: the backend may
\* answer after the session of the request is gone.
NextReconnect ==
    \/ \E k \in Slots :
          \/ HandleToggleConnection(k)
          \/ MicGranted(k)
          \/ TransportOpen(k)
          \/ TransportClose(k)
          \/ ImageMessage(k)
    \/ \E i \in 1..MaxCalls : ImageReturn(i)

\* The oldest pending notification timer fires.
NotificationExpires ==
    /\ notificationTimers # <<>>
    /\ Step(notificationExpired(World))

\* The workspace store under creates and updates.
NextStore ==
    \E k \in Attempts :
        \/ HandleToggleConnection(k)
        \/ MicGranted(k)
        \/ TransportOpen(k)
        \/ TransportClose(k)
        \/ StoreMessage(k)

\* One connection and its workspace calls, with the notifications expiring.
NextNotify == NextStore \/ NotificationExpires

Next ==
    NextFrames \/ NextTools \/ NextAudio \/ NextOverlap \/ NextBrowser
    \/ NextStore \/ NextNotify \/ NextReconnect

Spec == Init /\ [][Next]_vars

SpecConn == Init /\ [][NextConn]_vars

SpecNotify == Init /\ [][NextNotify]_vars

SpecReconnect == Init /\ [][NextReconnect]_vars

\* SpecConn, where the transport's handshake does not last forever: a
\* pending session opens or fails.  Nothing is assumed about what the user
\* does.
SpecConnLive ==
    SpecConn /\ \A k \in Attempts : WF_vars(TransportOpen(k) \/ TransportFail(k))

\* SpecConn, where the user answers the microphone prompt and a session
\* that is being closed reports its close.  Nothing is assumed about the
\* transport's handshake: a pending handle may stay pending forever.
SpecConnHang ==
    SpecConn /\ \A k \in Attempts :
                   WF_vars(MicGranted(k) \/ MicDenied(k) \/ TransportClose(k))

SpecTools == Init /\ [][NextTools]_vars

SpecCatch == Init /\ [][NextCatch]_vars

\* SpecCatch, where the microphone is granted and the transport's handshake
\* ends.  Nothing is assumed about the image backend: its answer may never
\* come.
SpecCatchHang ==
    SpecCatch /\ \A k \in Attempts : WF_vars(MicGranted(k) \/ TransportOpen(k))

SpecLog == InitLog /\ [][AddLog]_vars

SpecAudio == Init /\ [][NextAudio]_vars

SpecBrowser == Init /\ [][NextBrowser]_vars

SpecOverlap == Init /\ [][NextOverlap]_vars

SpecFrames == Init /\ [][NextFrames]_vars

SpecStore == Init /\ [][NextStore]_vars

\* ============================================================ properties
\* C9: the transcript holds at most 100 entries in every reachable state.
TranscriptAtMost100 == Len(logs) <= 100

\* A full transcript that was appended to twice: entries 1 and 2 are gone.
FullTranscriptAppended == Len(logs) = 100 /\ logs[1].text = 3

\* C10: an append to a transcript of exactly 100 entries removes exactly
\* the oldest entry and puts the new entry last, the other 99 keeping their
\* order; an append to a shorter transcript removes nothing.
AppendEvictsOldest ==
    [][logs' # logs =>
          /\ logs'[Len(logs')].text = Serial
          /\ Len(logs) = 100 =>
                logs' = Append(Tail(logs), logs'[Len(logs')])
          /\ Len(logs) < 100 =>
                logs' = Append(logs, logs'[Len(logs')])]_vars

\* The oldest entry of a full transcript was evicted, the new one is last.
OldestEvicted ==
    Len(logs) = 100 /\ logs[1].text = 2 /\ logs[100].text = 101

\* C5: disconnect() is idempotent: every call that runs to its end, be it
\* the first, one repeated in a row or one before any connect(), leaves
\* ConnectionState Disconnected and the hook without transport handle,
\* capture nodes and sampler timer.
DisconnectIdempotent ==
    [][discDone' > discDone =>
          /\ connectionState' = "DISCONNECTED"
          /\ sessionPromiseRef' = Null
          /\ processorRef' = Null
          /\ videoIntervalRef' = Null
          /\ videoStreamRef' = Null]_vars

\* disconnect() completed twice in a row after a session that was open.
DisconnectedTwice ==
    /\ discDone = 2
    /\ \E k \in Attempts : session[k] \in {"closing", "closed"}

\* C3: ConnectionState never makes an illegal transition; in particular
\* Disconnected never directly follows Connecting.  The legal ones are
\* Disconnected -> Connecting -> Connected -> {Disconnected, Error}, Error
\* and Connected back to Connecting, a connect attempt failing to Error,
\* and disconnect() out of Error.
OnlyLegalTransitions ==
    [][connectionState' # connectionState =>
          <<connectionState, connectionState'>> \in
              {<<"DISCONNECTED", "CONNECTING">>, <<"CONNECTING", "CONNECTED">>,
               <<"CONNECTING", "ERROR">>, <<"CONNECTED", "DISCONNECTED">>,
               <<"CONNECTED", "ERROR">>, <<"CONNECTED", "CONNECTING">>,
               <<"ERROR", "CONNECTING">>, <<"DISCONNECTED", "ERROR">>,
               <<"ERROR", "DISCONNECTED">>}]_vars

\* C4: the persisted snapshots are those of the connection lifetimes: one
\* for each lifetime that was begun and closed, each lifetime under its own
\* session id, and none that belongs to no lifetime.
OneSnapshotPerLifetime ==
    /\ (Range(lifetimes) \cap closedIds) \subseteq DOMAIN persisted
    /\ DOMAIN persisted \subseteq Range(lifetimes)
    /\ \A i, j \in 1..Len(lifetimes) : lifetimes[i] = lifetimes[j] => i = j

\* C6: in every state after a disconnect() completed and before the next
\* connect() call, no transport session is open, no timer is running, no
\* media track is live and ConnectionState is Disconnected.
NothingAliveAfterDisconnect ==
    discDone > 0 =>
        /\ connectionState = "DISCONNECTED"
        /\ \A k \in Attempts : session[k] # "open"
        /\ volumeTimers = {} /\ videoTimers = {}
        /\ micTracks = {} /\ videoTracks = {}

\* The responses delivered so far for request id, of the given shapes.
Responses(snt, id, shapes) ==
    {i \in 1..Len(snt) : snt[i].id = id /\ snt[i].shape \in shapes}

Shapes == {"ok", "fail", "empty", "error"}

\* The hook holds the handle of attempt k's session, and that session is open.
Held(k) == sessionPromiseRef = k /\ session[k] = "open"

\* C1: for every tool-call request delivered while the transport session
\* is held, exactly one response with the request's callId and name is sent
\* back, never two, and never zero once its handling has ended.
ExactlyOneResponse ==
    \A id \in DOMAIN requests :
        /\ Cardinality(Responses(sent, id, Shapes)) <= 1
        /\ \A i \in Responses(sent, id, Shapes) :
              sent[i].name = requests[id].name
        /\ (Held(requests[id].sess)
            /\ requests[id].st \notin {"waiting", "running"})
              => Cardinality(Responses(sent, id, Shapes)) = 1

\* In this step the handler of request id threw, and no other request was
\* delivered or handled.
ThrewAlone(id) ==
    /\ id \in DOMAIN requests'
    /\ requests'[id].st = "threw"
    /\ id \in DOMAIN requests => requests[id].st # "threw"
    /\ \A other \in (DOMAIN requests') \ {id} :
          other \in DOMAIN requests /\ requests'[other] = requests[other]

\* What the catch of line 688 emits, whatever becomes of the response.
CatchEmits ==
    /\ logs' # logs
    /\ logs'[Len(logs')] = [role |-> "system", text |-> "Error in tool"]
    /\ notifications' # <<>>
    /\ notifications'[Len(notifications')].type = "error"
    /\ connectionState' = connectionState
    /\ canvasItems' = canvasItems
    /\ activeCanvasId' = activeCanvasId

ActivePointerValid ==
    activeCanvasId = Null \/ activeCanvasId \in Ids(canvasItems)

\* C8: a step that only removes items from the store (a delete by tool
\* call or by deleteCanvasItem) sets the active pointer to null when the
\* active item is among them and leaves the pointer unchanged otherwise.
DeleteClearsActive ==
    [][(Ids(canvasItems') # Ids(canvasItems)
        /\ Ids(canvasItems') \subseteq Ids(canvasItems)) =>
          IF activeCanvasId \in Ids(canvasItems) \ Ids(canvasItems')
          THEN activeCanvasId' = Null
          ELSE activeCanvasId' = activeCanvasId]_vars

\* C11: playback units never overlap in time.  Any two units of one
\* connection that were handed to an open output context play in disjoint
\* intervals, whatever the arrival pattern and the decode latency.
PlaybackNeverOverlaps ==
    \A i, j \in 1..Len(units) :
        (i < j /\ units[i].sess = units[j].sess
               /\ units[i].played /\ units[j].played)
        => \/ units[i].from + units[i].dur <= units[j].from
           \/ units[j].from + units[j].dur <= units[i].from

\* The units of connection k that were handed to its open output context,
\* in the order they were scheduled.
UnitsOf(k) == SelectSeq(units, LAMBDA u : u.sess = k /\ u.played)

\* Every unit of s was scheduled before the clock reached the first start.
BackToBack(s) == \A i \in 1..Len(s) : s[i].at < s[1].when

\* The first start is the clock at scheduling plus the buffer; each later
\* start is the start before it plus the duration before it.
Chained(s) ==
    /\ s[1].when = s[1].at + bufferTime
    /\ \A i \in 2..Len(s) :
          /\ s[i].when = s[i - 1].when + s[i - 1].dur
          /\ s[i].when > s[i - 1].when

\* C12: when the chunks of a connection arrive back-to-back, the whole
\* sequence scheduled before the clock reaches the first start, the starts
\* are strictly increasing, each start is the previous start plus the
\* previous duration, and the first start is the playback clock at
\* scheduling plus the 50 ms buffer.
BackToBackChained ==
    \A k \in Slots :
        (UnitsOf(k) # <<>> /\ BackToBack(UnitsOf(k))) => Chained(UnitsOf(k))

\* Whether text t contains text part.
Contains(t, part) ==
    \E i \in 0..(Len(t) - Len(part)) : SubSeq(t, i + 1, i + Len(part)) = part

\* The URL the directory gives for a request, as the tool is described:
\* for a name of the directory (whatever its case) the search template
\* followed by the encoded query when there are both, the base URL
\* otherwise; for any other name a web search for the name and the query.
UrlAsDescribed(o) ==
    LET name == toLowerCase(o.appName)
    IN  IF name \in DOMAIN SUPPORTED_APPS
        THEN IF SUPPORTED_APPS[name].searchTemplate # Undefined
                /\ o.searchQuery # <<>>
             THEN o.url = [base |-> SUPPORTED_APPS[name].searchTemplate,
                           tail |-> encodeURIComponent(o.searchQuery)]
             ELSE o.url = [base |-> SUPPORTED_APPS[name].url, tail |-> <<>>]
        ELSE /\ o.url.base = "https://www.google.com/search?q="
             /\ Contains(o.url.tail, encodeURIComponent(name))
             /\ Contains(o.url.tail, encodeURIComponent(o.searchQuery))

\* The window.open calls made for request id.
OpenedFor(id) == {i \in 1..Len(opened) : opened[i].id = id}

\* C13: every controlBrowser request that was handled opened exactly one
\* URL, the one described above, and ended with a success confirmation,
\* never on the error path.
BrowserOpensAsDescribed ==
    \A id \in DOMAIN requests :
        (requests[id].name = "controlBrowser" /\ requests[id].st # "waiting")
        => /\ requests[id].st = "ok"
           /\ Cardinality(OpenedFor(id)) = 1
           /\ \A i \in OpenedFor(id) : UrlAsDescribed(opened[i])

\* C14: a step that handles one manageWorkspace create request adds one
\* item at the front of the store, of the requested kind (note when
\* itemType is omitted), makes it the active item and leaves the items
\* that were there as they were, in the same order.
CreatePlacesFirst ==
    [][\A id \in DOMAIN requests' :
          (/\ DOMAIN requests' = DOMAIN requests \cup {id}
           /\ id \notin DOMAIN requests
           /\ requests'[id].action = "create"
           /\ requests'[id].st = "ok")
          => /\ Len(canvasItems') = Len(canvasItems) + 1
             /\ Tail(canvasItems') = canvasItems
             /\ canvasItems'[1].type =
                   (IF requests'[id].itemType = "" THEN "note"
                    ELSE requests'[id].itemType)
             /\ activeCanvasId' = canvasItems'[1].id]_vars

\* A spreadsheet was created in a store that held a note.
CreatedSecondItem ==
    /\ Len(canvasItems) = 2
    /\ canvasItems[1].type = "spreadsheet"
    /\ canvasItems[2].type = "note"
    /\ canvasItems[1].id # canvasItems[2].id
    /\ activeCanvasId = canvasItems[1].id
    /\ 2 \in DOMAIN requests
    /\ requests[2].action = "create"
    /\ requests[2].itemType = "spreadsheet"
    /\ requests[2].st = "ok"

\* C15: a manageWorkspace update whose itemId no item has ends with a
\* failure-shaped result, not with an exception and not with a success.
UpdateOfMissingFails ==
    \A id \in DOMAIN requests :
        (/\ requests[id].action = "update"
         /\ requests[id].itemId = MissingId
         /\ requests[id].st \notin {"waiting", "dropped"})
        => requests[id].st = "fail"

\* C16: no two items of the workspace share an id, also when two items
\* are created without the wall clock advancing between them.
ItemIdsUnique ==
    \A i, j \in 1..Len(canvasItems) :
        i # j => canvasItems[i].id # canvasItems[j].id

\* C17: at most one transport session is open and at most one microphone
\* capture is producing frames, and every session that is pending or open
\* is the one the hook holds, so that disconnect() reaches it.
OneSessionOneCapture ==
    /\ Cardinality({k \in Slots : session[k] = "open"}) <= 1
    /\ Cardinality(captures) <= 1
    /\ \A k \in Slots :
          session[k] \in {"pending", "open"} => sessionPromiseRef = k

\* C18: no audio or still-image frame is sent on a session after it was
\* closed, by disconnect() or by the remote peer: no send was attempted
\* on a closed session.
NoFrameAfterClose == \A f \in frames : f.on # "closed"

\* C19: when the transport reports the close of an open session that no
\* disconnect() had closed, while ConnectionState is Connected, the state
\* becomes Disconnected and an info notification is emitted.
RemoteCloseDisconnects ==
    [][\A k \in Slots :
          (/\ session[k] = "open"
           /\ session'[k] = "closed"
           /\ connectionState = "CONNECTED")
          => /\ connectionState' = "DISCONNECTED"
             /\ \E i \in 1..Len(notifications') :
                   /\ notifications'[i].type = "info"
                   /\ notifications'[i].message = "Disconnected from server"]_vars

\* C20: once the transport has failed to open while ConnectionState is
\* Connecting, ConnectionState eventually leaves Connecting.
FailedOpenLeavesConnecting ==
    \A k \in Attempts :
        (session[k] = "failed" /\ connectionState = "CONNECTING")
        ~> (connectionState # "CONNECTING")

\* A disconnect() call is suspended at line 340, on attempt k's handle.
Suspended(k) ==
    \E i \in 1..Len(thenQueue[k]) : thenQueue[k][i].type = "disconnect"

\* C21: every disconnect() call eventually runs to its end, also one that
\* was made while the transport handle was pending: a call that is
\* suspended on the handle is eventually no longer suspended.
DisconnectCompletes ==
    \A k \in Attempts : Suspended(k) ~> ~Suspended(k)

\* C22: a connect() call made while no API key is available fails fast:
\* ConnectionState becomes Error, a system transcript entry and an error
\* notification are emitted, and no microphone or audio context is
\* acquired, no transport session is opened, no session id is generated
\* and the transcript and the workspace are not cleared.
NoKeyFailsFast ==
    [][\A k \in Slots :
          (~apiKey /\ conn[k].pc = "idle" /\ conn'[k].pc # "idle")
          => /\ connectionState' = "ERROR"
             /\ Len(logs') = Len(logs) + 1
             /\ SubSeq(logs', 1, Len(logs)) = logs
             /\ logs'[Len(logs')].role = "system"
             /\ \E i \in 1..Len(notifications') :
                   notifications'[i].type = "error"
             /\ micTracks' = micTracks
             /\ contexts' = contexts
             /\ session' = session
             /\ sessionPromiseRef' = sessionPromiseRef
             /\ sessionIdRef' = sessionIdRef
             /\ lifetimes' = lifetimes
             /\ canvasItems' = canvasItems]_vars

\* connect() was called twice without a key: the second call found the
\* entry of the first in the transcript and left it there.
FailedFastTwice ==
    /\ ~apiKey
    /\ conn[2].pc = "done"
    /\ connectionState = "ERROR"
    /\ Len(logs) = 2
    /\ lifetimes = <<>>
    /\ micTracks = {}

\* C23: ConnectionState becomes Connected only out of Connecting, in the
\* step in which the transport confirms the open of the session the hook
\* holds; an open confirmation that arrives while ConnectionState is
\* Disconnected neither sets Connected nor starts the capture pipeline.
ConnectedOnlyFromConnecting ==
    [][/\ (connectionState # "CONNECTED" /\ connectionState' = "CONNECTED")
          => /\ connectionState = "CONNECTING"
             /\ \E k \in Slots : /\ session[k] = "pending"
                                 /\ session'[k] = "open"
                                 /\ sessionPromiseRef = k
       /\ \A k \in Slots :
             (/\ session[k] = "pending"
              /\ session'[k] = "open"
              /\ connectionState = "DISCONNECTED")
             => /\ connectionState' # "CONNECTED"
                /\ captures' = captures]_vars

\* C24: a unit whose chunk arrived while nextStart was behind the playback
\* clock is handed to the audio output with a start at least the 50 ms
\* buffer ahead of the clock as it stands when the unit is scheduled.
ResetStartsAhead ==
    \A i \in 1..Len(units) :
        (units[i].reset /\ units[i].played)
        => units[i].when >= units[i].at + bufferTime

\* C25: nextStart never decreases: no chunk arrival, unit completion,
\* disconnect or reconnect lowers it, and the step that schedules a chunk
\* raises it by exactly the duration of that chunk.
NextStartMonotonic ==
    [][/\ nextStartTimeRef' >= nextStartTimeRef
       /\ Len(units') > Len(units)
          => nextStartTimeRef' = nextStartTimeRef + units'[Len(units')].dur]_vars

\* After a reconnection nextStart stands where the first connection left
\* it, and a unit of the first connection has completed.
NextStartKeptOverReconnect ==
    /\ Len(units) = 2
    /\ units[1].sess = 1 /\ units[1].ended
    /\ units[2].sess = 2 /\ units[2].dur = 2
    /\ nextStartTimeRef = units[2].when + 2
    /\ units[2].when >= units[1].when + units[1].dur

\* C26: the agent-is-speaking signal is true in every state in which a
\* unit scheduled on an open output context has not completed, and false
\* in every state in which every scheduled unit has completed and no
\* chunk is being decoded.
SpeakingFollowsActiveSet ==
    /\ (\E i \in 1..Len(units) :
           ~units[i].ended /\ units[i].played /\ units[i].sess \in contexts)
       => isAgentSpeaking
    /\ ((\A i \in 1..Len(units) : units[i].ended) /\ decoding = <<>>)
       => ~isAgentSpeaking

\* C27: the chunks of a connection are placed on the playback timeline in
\* arrival order: of two units of one connection, the one whose chunk
\* arrived first has the earlier scheduled start.
ScheduledInArrivalOrder ==
    \A i, j \in 1..Len(units) :
        (units[i].sess = units[j].sess /\ units[i].n < units[j].n)
        => units[i].when < units[j].when

\* Unit i was scheduled before every unit whose chunk arrived after its own.
InTurn(i) == \A j \in 1..Len(units) : units[j].n > units[i].n => j > i

\* C28: a unit whose chunk arrived while no earlier unit was scheduled or
\* playing and no chunk was being decoded, be it the first chunk of a
\* connection or of a reconnection, and that was scheduled in its turn on
\* an open output context, is given a start no later than the playback
\* clock plus the 50 ms buffer, the clock being read when the unit is
\* scheduled.
BurstStartsWithinBuffer ==
    \A i \in 1..Len(units) :
        (units[i].idle /\ InTurn(i) /\ units[i].played)
        => units[i].when <= units[i].at + bufferTime

\* C29: a handler that has not completed does not block other tool calls:
\* every request that was delivered and is not yet handled is eventually
\* handled, whatever becomes of the requests before it.
SlowHandlerBlocksNone ==
    \A id \in 1..MaxCalls :
        (id \in DOMAIN requests /\ requests[id].st = "waiting")
        ~> ~(id \in DOMAIN requests /\ requests[id].st = "waiting")

\* C30: a manageWorkspace read lists the id, title and kind of exactly the
\* items the store holds when the read is handled, the item created,
\* updated or deleted by the preceding tool call of the same message
\* included, and downloadItem resolves its itemId against that same
\* content.
ReadSeesCurrentStore ==
    \A id \in DOMAIN requests :
        (/\ requests[id].action = "read" \/ requests[id].name = "downloadItem"
         /\ requests[id].st \in {"ok", "fail"})
        => requests[id].saw = requests[id].was

\* A manageWorkspace update or delete that names no item.
MissingIdCall(r) ==
    r.name = "manageWorkspace" /\ r.action \in {"update", "delete"}
                               /\ r.itemId = Null

\* In this step the handling of request id ended.
Handled(id) ==
    /\ id \in DOMAIN requests'
    /\ requests'[id].st \notin {"waiting", "running", "dropped"}
    /\ id \in DOMAIN requests => requests[id].st = "waiting"

\* In this step request id was handled, and no other request was delivered
\* or handled.
HandledAlone(id) ==
    /\ Handled(id)
    /\ \A other \in (DOMAIN requests') \ {id} :
          other \in DOMAIN requests /\ requests'[other] = requests[other]

\* The transcript entries of the dispatcher's error path.
ErrorEntries(lg) == {i \in 1..Len(lg) : lg[i].text = "Error in tool"}

\* What an update or delete without itemId leaves behind, the response
\* apart: a failure result, no entry of the error path, no notification,
\* the items and the active pointer as they were.
MissingIdLeaves(id) ==
    /\ Handled(id) /\ MissingIdCall(requests'[id])
       => /\ requests'[id].st = "fail"
          /\ Responses(sent', id, Shapes \ {"fail"}) = {}
    /\ HandledAlone(id) /\ MissingIdCall(requests'[id])
       => /\ Cardinality(ErrorEntries(logs')) = Cardinality(ErrorEntries(logs))
          /\ notifications' = notifications
          /\ canvasItems' = canvasItems
          /\ activeCanvasId' = activeCanvasId

\* C31: a manageWorkspace update or delete without itemId ends
\* with a failure result and not on the error path, sends exactly one
\* response, and leaves the items and the active pointer unchanged.
MissingIdAlwaysAnswered ==
    [][\A id \in 1..MaxCalls :
          /\ MissingIdLeaves(id)
          /\ Handled(id) /\ MissingIdCall(requests'[id])
             => Cardinality(Responses(sent', id, {"fail"})) = 1]_vars

\* C32: a step that handles one manageWorkspace update naming an item of
\* the store replaces that item's title and content with the values the
\* request carries (the title is kept when the request carries none) and
\* changes nothing else: the other items, the order, the ids, the kinds and
\* the active pointer are unchanged.
UpdateTouchesOneItem ==
    [][\A id \in 1..MaxStoreCalls :
          (/\ HandledAlone(id)
           /\ requests'[id].action = "update"
           /\ requests'[id].itemId \in Ids(canvasItems))
          => /\ requests'[id].st = "ok"
             /\ activeCanvasId' = activeCanvasId
             /\ Len(canvasItems') = Len(canvasItems)
             /\ \E i \in 1..Len(canvasItems) :
                   /\ canvasItems[i].id = requests'[id].itemId
                   /\ canvasItems'[i] =
                         [canvasItems[i] EXCEPT
                            !.title = IF requests'[id].title = "" THEN @
                                      ELSE requests'[id].title,
                            !.content = "C2"]
                   /\ \A j \in (1..Len(canvasItems)) \ {i} :
                         canvasItems'[j] = canvasItems[j]]_vars

\* In this step the image backend answered request id, and no other
\* request was delivered or handled.
ImageAnsweredAlone(id) ==
    /\ id \in DOMAIN requests
    /\ requests[id].name = "generateImage"
    /\ requests[id].st = "running"
    /\ requests'[id].st # "running"
    /\ \A other \in (DOMAIN requests') \ {id} :
          other \in DOMAIN requests /\ requests'[other] = requests[other]

\* C33: when the backend returns image data, generateImage adds exactly
\* one item of kind image at the front of the workspace and makes it
\* active; when it returns none, the workspace and the active pointer are
\* unchanged and the response, if one is sent, is error-shaped.
ImageAddedOrFailed ==
    [][\A id \in 1..MaxCalls :
          ImageAnsweredAlone(id)
          => /\ requests'[id].st \in {"ok", "threw"}
             /\ requests'[id].st = "ok"
                => /\ Len(canvasItems') = Len(canvasItems) + 1
                   /\ Tail(canvasItems') = canvasItems
                   /\ canvasItems'[1].type = "image"
                   /\ activeCanvasId' = canvasItems'[1].id
                   /\ Responses(sent', id, Shapes \ {"ok"}) = {}
             /\ requests'[id].st = "threw"
                => /\ canvasItems' = canvasItems
                   /\ activeCanvasId' = activeCanvasId
                   /\ Responses(sent', id, Shapes \ {"error"}) = {}
                   /\ Cardinality(Responses(sent', id, {"error"})) <= 1]_vars

\* An image was generated into a store that held a note, and answered.
ImageAddedInFront ==
    /\ Len(canvasItems) = 2
    /\ canvasItems[1].type = "image"
    /\ canvasItems[2].type = "note"
    /\ activeCanvasId = canvasItems[1].id
    /\ \E id \in DOMAIN requests :
          /\ requests[id].name = "generateImage"
          /\ requests[id].st = "ok"
          /\ Cardinality(Responses(sent, id, {"ok"})) = 1

\* C34: a step in which the screen track of the running share ends, in which
\* neither connect() nor disconnect() ran, turns the sampler off (sharing
\* flag false, its timer cleared, its tracks stopped, no stream kept), emits one system transcript
\* entry and one info notification, and leaves ConnectionState, the
\* transport session and the audio capture pipeline unchanged.
TrackEndDisablesSampler ==
    [][\A s \in ShareIds :
          (/\ s \in videoTracks /\ s \notin videoTracks'
           /\ isScreenSharingRef
           /\ conn' = conn /\ discDone' = discDone)
          => /\ ~isScreenSharingRef' /\ ~isScreenSharing'
             /\ videoIntervalRef' = Null
             /\ videoTimers' = videoTimers \ {videoIntervalRef}
             /\ videoTracks' \subseteq videoTracks \ {s, videoStreamRef}
             /\ videoStreamRef' = Null
             /\ logs' = Append(logs, [role |-> "system",
                                      text |-> "Screen sharing stopped."])
             /\ notifications' # <<>>
             /\ notifications'[Len(notifications')].type = "info"
             /\ connectionState' = connectionState
             /\ session' = session
             /\ sessionPromiseRef' = sessionPromiseRef
             /\ captures' = captures
             /\ micTracks' = micTracks
             /\ contexts' = contexts
             /\ processorRef' = processorRef]_vars

\* The share was turned off by its track while the session went on: the
\* sampler is off, the connection and the capture are as they were.
SamplerOffSessionOn ==
    /\ shares[1].pc = "done"
    /\ ~isScreenSharingRef /\ videoTimers = {} /\ videoTracks = {}
    /\ logs # <<>>
    /\ logs[Len(logs)].text = "Screen sharing stopped."
    /\ connectionState = "CONNECTED"
    /\ session[1] = "open"
    /\ captures = {1}

\* C35: a notification leaves the queue only when its own timer fires: a
\* step that shortens the queue is the firing of the oldest pending timer
\* and removes exactly one notification, so that the notifications shown
\* are always as many as the timers pending.
NotificationExpiresAlone ==
    [][/\ Len(notifications') < Len(notifications)
          => /\ notificationTimers # <<>>
             /\ notificationTimers' = Tail(notificationTimers)
             /\ Len(notifications') = Len(notifications) - 1
       /\ Len(notifications') = Len(notificationTimers')]_vars

\* The requests whose handling ended on the error path in this step.
NewlyThrown ==
    {id \in DOMAIN requests : requests[id].st # "threw"
                              /\ requests'[id].st = "threw"}

\* C36: when a suspended tool handler goes on after disconnect() has dropped
\* the handle and before a new connect(), nothing is sent or queued on any
\* session, no session changes, ConnectionState stays, and the missing
\* handle raises nothing: the only entries of the error path are those of
\* requests that failed by themselves.
LateHandlerIsSilent ==
    [][(/\ sessionPromiseRef = Null
        /\ connectionState # "CONNECTING"
        /\ \E id \in DOMAIN requests :
              requests[id].st = "running" /\ requests'[id].st # "running")
       => /\ sent' = sent
          /\ thenQueue' = thenQueue
          /\ frames' = frames
          /\ session' = session
          /\ sessionPromiseRef' = Null
          /\ connectionState' = connectionState
          /\ Cardinality(ErrorEntries(logs'))
               = Cardinality(ErrorEntries(logs)) + Cardinality(NewlyThrown)]_vars

\* An image request was answered by the backend after the disconnect: its
\* item is in the workspace, and no response for it was sent.
ImageDoneAfterDisconnect ==
    /\ sessionPromiseRef = Null
    /\ connectionState = "DISCONNECTED"
    /\ \E id \in DOMAIN requests :
          /\ requests[id].name = "generateImage"
          /\ requests[id].st = "ok"
          /\ Responses(sent, id, Shapes) = {}
    /\ \E i \in 1..Len(canvasItems) : canvasItems[i].type = "image"

\* C37: every tool response that was sent went out on the session that
\* delivered its request.
ResponseOnIssuingSession ==
    \A i \in 1..Len(sent) :
        sent[i].id \in DOMAIN requests
        => sent[i].sess = requests[sent[i].id].sess

\* C38: a tool handler of an earlier connection that goes on after connect()
\* has reset the transcript and the workspace leaves the new session's
\* items, active pointer and transcript as they are, and nothing is saved
\* for it under the new session id.
LateHandlerLeavesNewSession ==
    [][\A id \in DOMAIN requests :
          (/\ requests[id].st = "running" /\ requests'[id].st # "running"
           /\ requests[id].sid # sessionIdRef)
          => /\ canvasItems' = canvasItems
             /\ activeCanvasId' = activeCanvasId
             /\ logs' = logs
             /\ persisted' = persisted]_vars

\* C39: once disconnect() has closed the output contexts and no chunk is
\* being decoded, the playback active set is empty: no unit of a connection
\* that was torn down is still counted in it.
ActiveSetEmptyAfterDisconnect ==
    (connectionState = "DISCONNECTED" /\ contexts = {} /\ decoding = <<>>)
    => audioSources = 0

\* C40: the requests a message delivers are all dispatched, whatever became
\* of the audio chunk of the same message: none of them is left unhandled
\* because the audio part failed, and the delivery leaves ConnectionState
\* as it was and nextStart no earlier than it was.
AudioFailureKeepsCalls ==
    [][\A id \in (DOMAIN requests') \ (DOMAIN requests) :
          /\ requests'[id].st # "dropped"
          /\ connectionState' = connectionState
          /\ nextStartTimeRef' >= nextStartTimeRef]_vars

====
